---- MODULE Spec2Model ----
(***************************************************************************)
(* BlueprintX: the step orchestrator (server/app/agents/orchestrator.py)   *)
(* and the FAISS-backed vector store                                       *)
(* (server/app/services/vectorstores/faiss_store.py) as state machines.    *)
(*                                                                         *)
(* Spec       one Orchestrator instance on which execute() is called       *)
(*            repeatedly; every agent / on_failure call is an external     *)
(*            call that may return or raise.                               *)
(* SpecIndex  one FAISSVectorStore instance receiving add_documents calls. *)
(* SpecSearch, SpecIngest, SpecRequests, SpecChunker: the store under       *)
(*            inserts and searches, the ingestion pipeline, the pipeline   *)
(*            with the retrieval agent, one chunk_text() call.             *)
(* SpecShared, SpecOverlap: the host's worker threads on the one store and *)
(*            on the one orchestrator.  SpecDelay, SpecLive: the           *)
(*            orchestrator with retry delays, and with fairness.           *)
(***************************************************************************)
EXTENDS Integers, Sequences, FiniteSets, TLC

VARIABLES
    steps,            \* Orchestrator.steps: the list given to __init__
    execution_log,    \* Orchestrator.execution_log
    initial_input,    \* the caller's dict passed to execute()
    cumulative_data,  \* local of execute()
    step_log,         \* local of execute(): the record of the step in progress
    pc,               \* position of the thread inside execute()/_execute_step()
    i,                \* loop index of execute(), 1-based (step_index = i - 1)
    attempt,          \* parameter of _execute_step()
    err,              \* the exception caught at line 104 (e)
    exc,              \* the exception propagating out of _execute_step()
    output,           \* the value _execute_step() returned
    result,           \* how the last execute() call ended
    calls,            \* history: agent invocations of the current run
    handlerCalls,     \* history: on_failure invocations of the current run
    stepOut,          \* history: what the agent / handler of each step returned
    rerun,            \* history: the current run began on a log that held records
    delays,           \* history: the time.sleep() calls of the current run
    dimension,        \* FAISSVectorStore.dimension
    index,            \* FAISSVectorStore.index: the float32 rows of IndexFlatL2
    metadata,         \* FAISSVectorStore.metadata
    uuids,            \* history: number of uuid4() values drawn so far
    last_add,         \* the last store call, if add_documents(): its batch, how it ended
    last_search,      \* the last store call, if similarity_search(): its query, how it ended
    given,            \* history: the embeddings as supplied, one per stored row
    chunk_size,       \* IngestionPipeline.chunk_size
    chunk_overlap,    \* IngestionPipeline.chunk_overlap
    ingest_pc,        \* where ingest_document() stands
    ing,              \* ingest_document()'s arguments and locals
    last_ingest,      \* how the last ingest_document() call ended
    called,           \* history: the collaborators the current call has called
    before,           \* history: the store when the current call began
    last_retrieve,    \* how the request's retrieval, DocumentUnderstandingAgent, ended
    origin,           \* history: the document each stored row was ingested from
    chunk_call,       \* the last chunk_text() call: its arguments, how it ended
    host,             \* the host's worker threads inside add_documents()
    runs              \* the host's worker threads inside execute(): their locals

orchVars == <<steps, execution_log, initial_input, cumulative_data, step_log, pc,
              i, attempt, err, exc, output, result, calls, handlerCalls,
              stepOut, rerun, delays>>
storeVars == <<dimension, index, metadata, uuids, last_add, last_search, given>>
ingestVars == <<chunk_size, chunk_overlap, ingest_pc, ing, last_ingest, called, before>>
agentVars == <<last_retrieve, origin>>
chunkVars == <<chunk_call>>
hostVars == <<host, runs>>
vars == <<orchVars, storeVars, ingestVars, agentVars, chunkVars, hostVars>>

----------------------------------------------------------------------------
(* Bounds of the model *)

MaxSteps == 2
MaxRetries == 1

Names == {"a", "b"}
Outputs == {"out1", "out2"}
HandlerOutputs == {"fallback"}
None == "None"

NoError == [cls |-> "None", msg |-> "None"]
AgentErrors == {[cls |-> "ValueError", msg |-> "bad input"],
                [cls |-> "RuntimeError", msg |-> "provider down"]}
HandlerErrors == {[cls |-> "RuntimeError", msg |-> "handler broke"]}

EmptyMap == [k \in {} |-> None]
InitialInputs == {[k \in {"query"} |-> "q"], [k \in {"a"} |-> "seed"]}

----------------------------------------------------------------------------
(* ExecutionState *)

PENDING == "pending"
RUNNING == "running"
SUCCESS == "success"
FAILED == "failed"
RETRYING == "retrying"

ExecutionState == {PENDING, RUNNING, SUCCESS, FAILED, RETRYING}

(* OrchestratorStep: name, retries, on_failure (present or not). *)
RetryBudgets == {0, MaxRetries}
(* retry_delay, in seconds; line 37: the default is 1.0 *)
DefaultRetryDelay == 1
RetryDelays == {DefaultRetryDelay, 2}

OrchestratorStep ==
    [name : Names, retries : RetryBudgets, retry_delay : RetryDelays, on_failure : BOOLEAN]

(* the step lists an orchestrator is built with; retry_delay is left at its
   default *)
StepLists ==
    UNION {[1..n -> {step \in OrchestratorStep : step.retry_delay = DefaultRetryDelay}] :
             n \in 1..MaxSteps}

(* str(e) *)
Str(e) == e.msg

(* dict.copy(): a new dict with the same top-level items *)
Copy(d) == [k \in DOMAIN d |-> d[k]]

MergeDropped(d, name, out) == d

CallersMapShared(caller, data) == data

(* line 151: cumulative_data is initial_input.copy(), a dict of its own, so
   the caller's dict stays as it is when cumulative_data has become data *)
CallersMap(caller, data) == caller

MergeKeepFirst(d, name, out) ==
    [k \in DOMAIN d \cup {name} |-> IF k \in DOMAIN d THEN d[k] ELSE out]

(* cumulative_data[step.name] = output *)
Merge(d, name, out) == [k \in DOMAIN d \cup {name} |-> IF k = name THEN out ELSE d[k]]

----------------------------------------------------------------------------
(* Orchestrator, orchestrator.py *)

ShouldRetryOffByOne(att, step) == att <= step.retries

(* line 108: attempt < step.retries *)
ShouldRetry(att, step) == att < step.retries

FreshLogKept(log) == log

(* history: the records of earlier execute() calls *)
MarkStale(log) == [k \in 1..Len(log) |-> [log[k] EXCEPT !.stale = TRUE]]

(* line 148: self.execution_log = [] *)
FreshLog(log) == << >>

NewStepLogOneBased(step, idx, data) ==
    [step_name |-> step.name, step_index |-> idx, state |-> PENDING,
     input |-> Copy(data), output |-> None, error |-> None, attempts |-> 0,
     stale |-> FALSE]

(* lines 154-162: the record of a step, before it runs.  The field stale is a
   history field (not in the source): FALSE in a record built by the execute()
   call in progress or last finished, TRUE once a later execute() call began. *)
NewStepLog(step, idx, data) ==
    [step_name |-> step.name, step_index |-> idx - 1, state |-> PENDING,
     input |-> Copy(data), output |-> None, error |-> None, attempts |-> 0,
     stale |-> FALSE]

SuccessRecordAsFailed(rec, out) == [rec EXCEPT !.state = FAILED, !.output = out]

SuccessRecordNoOutput(rec, out) == [rec EXCEPT !.state = SUCCESS]

(* lines 170-171 *)
SuccessRecord(rec, out) == [rec EXCEPT !.state = SUCCESS, !.output = out]

(* lines 178-179 *)
FailureRecord(rec, e) == [rec EXCEPT !.state = FAILED, !.error = Str(e)]

(* line 180 (in the except block) followed by line 188 (the finally block) *)
LogFailure(log, rec) == Append(Append(log, rec), rec)

LogSuccessDropped(log, rec) == log

(* line 188 (the finally block) after a step that returned *)
LogSuccess(log, rec) == Append(log, rec)

HandlerExceptionOriginal(handler_error, e) == [err |-> e, cause |-> NoError]

(* line 126: raise handler_error from e *)
HandlerException(handler_error, e) == [err |-> handler_error, cause |-> e]

ReraiseWrapped(e) == [err |-> [cls |-> "RuntimeError", msg |-> e.msg], cause |-> e]

(* line 129: a bare raise re-raises e itself *)
Reraise(e) == [err |-> e, cause |-> NoError]

NoResult == [kind |-> "none", value |-> EmptyMap, error |-> NoError, cause |-> NoError]
NoStepLog ==
    [step_name |-> None, step_index |-> 0, state |-> PENDING, input |-> EmptyMap,
     output |-> None, error |-> None, attempts |-> 0, stale |-> FALSE]

(* __init__(), lines 72-73, and no execute() call yet *)
NoRunYet ==
    /\ execution_log = << >>
    /\ initial_input = EmptyMap
    /\ cumulative_data = EmptyMap
    /\ step_log = NoStepLog
    /\ pc = "idle"
    /\ i = 1
    /\ attempt = 0
    /\ err = NoError
    /\ exc = Reraise(NoError)
    /\ output = None
    /\ result = NoResult
    /\ calls = << >>
    /\ handlerCalls = << >>
    /\ stepOut = << >>
    /\ rerun = FALSE
    /\ delays = << >>

InitOrch == steps \in StepLists /\ NoRunYet

(* execute(), lines 147-151: a new run starts *)
Execute(inp) ==
    /\ pc = "idle"
    /\ initial_input' = inp
    /\ execution_log' = FreshLog(MarkStale(execution_log))
    /\ cumulative_data' = Copy(inp)
    /\ i' = 1
    /\ pc' = "for"
    /\ result' = NoResult
    /\ calls' = << >>
    /\ handlerCalls' = << >>
    /\ stepOut' = << >>
    /\ rerun' = (execution_log # << >>)
    /\ delays' = << >>
    /\ step_log' = NoStepLog
    /\ attempt' = 0
    /\ err' = NoError
    /\ exc' = Reraise(NoError)
    /\ output' = None
    /\ UNCHANGED <<steps, storeVars, ingestVars, agentVars, chunkVars, hostVars>>

(* execute(), lines 153-162: the next step's record is built, state PENDING *)
BeginStep ==
    /\ pc = "for"
    /\ i <= Len(steps)
    /\ step_log' = NewStepLog(steps[i], i, cumulative_data)
    /\ pc' = "pending"
    /\ UNCHANGED <<storeVars, ingestVars, agentVars, chunkVars, hostVars, rerun, delays, steps, execution_log, initial_input, cumulative_data, i, attempt,
                   err, exc, output, result, calls, handlerCalls, stepOut>>

(* execute(), lines 164-167: state RUNNING, _execute_step(step, cumulative_data) *)
EnterStep ==
    /\ pc = "pending"
    /\ step_log' = [step_log EXCEPT !.state = RUNNING]
    /\ attempt' = 0
    /\ pc' = "call"
    /\ UNCHANGED <<storeVars, ingestVars, agentVars, chunkVars, hostVars, rerun, delays, steps, execution_log, initial_input, cumulative_data, i,
                   err, exc, output, result, calls, handlerCalls, stepOut>>

(* _execute_step(), lines 100-103: step.agent.execute(input_data) returns *)
AgentReturns(out) ==
    /\ pc = "call"
    /\ calls' = Append(calls, [step |-> i, input |-> cumulative_data])
    /\ output' = out
    /\ stepOut' = Append(stepOut, out)
    /\ pc' = "returned"
    /\ UNCHANGED <<storeVars, ingestVars, agentVars, chunkVars, hostVars, rerun, delays, steps, execution_log, initial_input, cumulative_data, step_log, i,
                   attempt, err, exc, result, handlerCalls>>

(* _execute_step(), lines 100-129: step.agent.execute(input_data) raises e *)
AgentRaises(e) ==
    /\ pc = "call"
    /\ calls' = Append(calls, [step |-> i, input |-> cumulative_data])
    /\ err' = e
    /\ IF ShouldRetry(attempt, steps[i])
         THEN pc' = "sleep" /\ UNCHANGED exc
         ELSE IF steps[i].on_failure
                THEN pc' = "on_failure" /\ UNCHANGED exc
                ELSE pc' = "except" /\ exc' = Reraise(e)
    /\ UNCHANGED <<storeVars, ingestVars, agentVars, chunkVars, hostVars, rerun, delays, steps, execution_log, initial_input, cumulative_data, step_log, i,
                   attempt, output, result, handlerCalls, stepOut>>

RetryDelaySkipped ==
    /\ pc = "sleep"
    /\ attempt' = attempt + 1
    /\ pc' = "call"
    /\ UNCHANGED <<storeVars, ingestVars, agentVars, chunkVars, hostVars, rerun, delays, steps, execution_log, initial_input, cumulative_data, step_log, i,
                   err, exc, output, result, calls, handlerCalls, stepOut>>

(* _execute_step(), lines 113-114: time.sleep(step.retry_delay), then the
   recursive call with attempt + 1.  A delay is recorded with the step, the
   seconds slept and the number of agent invocations made before it. *)
RetryDelay ==
    /\ pc = "sleep"
    /\ delays' = Append(delays, [step |-> i, seconds |-> steps[i].retry_delay,
                                 after |-> Len(calls)])
    /\ attempt' = attempt + 1
    /\ pc' = "call"
    /\ UNCHANGED <<storeVars, ingestVars, agentVars, chunkVars, hostVars, rerun, steps, execution_log, initial_input, cumulative_data, step_log, i,
                   err, exc, output, result, calls, handlerCalls, stepOut>>

HandlerReturnsIgnored(out) ==
    /\ pc = "on_failure"
    /\ handlerCalls' = Append(handlerCalls,
                              [step |-> i, input |-> cumulative_data, error |-> err,
                               raised |-> NoError])
    /\ exc' = [err |-> err, cause |-> NoError]
    /\ pc' = "except"
    /\ UNCHANGED <<storeVars, ingestVars, agentVars, chunkVars, hostVars, rerun, delays, steps, execution_log, initial_input, cumulative_data,
                   step_log, i, attempt, err, output, result, calls, stepOut>>

(* _execute_step(), lines 117-120: step.on_failure(input_data, e) returns *)
HandlerReturns(out) ==
    /\ pc = "on_failure"
    /\ handlerCalls' = Append(handlerCalls,
                              [step |-> i, input |-> cumulative_data, error |-> err,
                               raised |-> NoError])
    /\ output' = out
    /\ stepOut' = Append(stepOut, out)
    /\ pc' = "returned"
    /\ UNCHANGED <<storeVars, ingestVars, agentVars, chunkVars, hostVars, rerun, delays, steps, execution_log, initial_input, cumulative_data, step_log, i,
                   attempt, err, exc, result, calls>>

(* _execute_step(), lines 121-126: step.on_failure(input_data, e) raises *)
HandlerRaises(handler_error) ==
    /\ pc = "on_failure"
    /\ handlerCalls' = Append(handlerCalls,
                              [step |-> i, input |-> cumulative_data, error |-> err,
                               raised |-> handler_error])
    /\ exc' = HandlerException(handler_error, err)
    /\ pc' = "except"
    /\ UNCHANGED <<storeVars, ingestVars, agentVars, chunkVars, hostVars, rerun, delays, steps, execution_log, initial_input, cumulative_data, step_log, i,
                   attempt, err, output, result, calls, stepOut>>

(* execute(), lines 170-174 and 187-188: the step returned; the frame of
   _execute_step() is gone *)
StepSucceeded ==
    /\ pc = "returned"
    /\ step_log' = SuccessRecord(step_log, output)
    /\ cumulative_data' = Merge(cumulative_data, steps[i].name, output)
    /\ initial_input' = CallersMap(initial_input, cumulative_data')
    /\ execution_log' = LogSuccess(execution_log, step_log')
    /\ i' = i + 1
    /\ pc' = "for"
    /\ attempt' = 0
    /\ err' = NoError
    /\ output' = None
    /\ UNCHANGED <<storeVars, ingestVars, agentVars, chunkVars, hostVars, rerun, delays, steps, exc, result,
                   calls, handlerCalls, stepOut>>

(* execute(), lines 176-188: the step raised; execute() raises *)
StepFailed ==
    /\ pc = "except"
    /\ step_log' = FailureRecord(step_log, exc.err)
    /\ execution_log' = LogFailure(execution_log, step_log')
    /\ result' = [kind |-> "raised", value |-> EmptyMap, error |-> exc.err,
                  cause |-> exc.cause]
    /\ pc' = "idle"
    /\ UNCHANGED <<storeVars, ingestVars, agentVars, chunkVars, hostVars, rerun, delays, steps, initial_input, cumulative_data, i, attempt, err, exc,
                   output, calls, handlerCalls, stepOut>>

(* execute(), lines 190-191: the loop is over, return cumulative_data *)
Return ==
    /\ pc = "for"
    /\ i > Len(steps)
    /\ result' = [kind |-> "returned", value |-> cumulative_data, error |-> NoError,
                  cause |-> NoError]
    /\ pc' = "idle"
    /\ UNCHANGED <<storeVars, ingestVars, agentVars, chunkVars, hostVars, rerun, delays, steps, execution_log, initial_input, cumulative_data, step_log, i,
                   attempt, err, exc, output, calls, handlerCalls, stepOut>>

Next ==
    \/ \E inp \in InitialInputs : Execute(inp)
    \/ BeginStep
    \/ EnterStep
    \/ \E out \in Outputs : AgentReturns(out)
    \/ \E e \in AgentErrors : AgentRaises(e)
    \/ RetryDelay
    \/ \E out \in HandlerOutputs : HandlerReturns(out)
    \/ \E e \in HandlerErrors : HandlerRaises(e)
    \/ StepSucceeded
    \/ StepFailed
    \/ Return

----------------------------------------------------------------------------
(* FAISSVectorStore, faiss_store.py *)

MaxRecords == 3
MaxBatch == 2

Dimensions == {1, 2}

(* Embedding components are Python floats.  They are counted in units of half
   the float32 spacing around them, so the float32 values are the even
   numbers and np.float32 rounds an odd one to a neighbour (ties to even
   mantissa). *)
Components == {0, 1, 2}

(* line 89: np.array(embeddings, dtype=np.float32), one component *)
ToFloat32(x) == IF x % 2 = 0 THEN x ELSE IF (x - 1) % 4 = 0 THEN x - 1 ELSE x + 1

Float32Row(v) == [c \in 1..Len(v) |-> ToFloat32(v[c])]

Vectors(d) == [1..d -> Components]

Metas == {[k \in {"text"} |-> "t1"],
          [k \in {"text", "document_id"} |-> IF k = "text" THEN "t2" ELSE "doc"]}

(* str(uuid4()): the n-th identifier drawn; no two draws are equal *)
Uuid(n) == "uuid-" \o ToString(n)

DocumentIdsRepeated(n) == [k \in 1..n |-> Uuid(uuids + 1)]

(* line 79: document_ids = [str(uuid4()) for _ in range(len(embeddings))] *)
DocumentIds(n) == [k \in 1..n |-> Uuid(uuids + k)]

(* lines 84-85: meta.copy() with the identifier under "document_id" *)
Enrich(meta, doc_id) ==
    [k \in DOMAIN meta \cup {"document_id"} |->
        IF k = "document_id" THEN doc_id ELSE meta[k]]

(* lines 82-86 *)
EnrichedMetadata(metas, document_ids) ==
    [k \in 1..Len(metas) |-> Enrich(metas[k], document_ids[k])]

RejectedFirstRowOnly(embeddings, metas) ==
    \/ Len(embeddings) # Len(metas)
    \/ Len(embeddings) = 0
    \/ Len(embeddings[1]) # dimension

(* lines 61-76: the checks that reject a batch *)
Rejected(embeddings, metas) ==
    \/ Len(embeddings) # Len(metas)
    \/ Len(embeddings) = 0
    \/ \E k \in 1..Len(embeddings) : Len(embeddings[k]) # dimension

IndexAddFront(rows_, new_rows) == new_rows \o rows_

(* line 92: self.index.add(embeddings_array) *)
IndexAdd(rows_, new_rows) == rows_ \o new_rows

(* line 95: self.metadata.extend(enriched_metadata) *)
MetadataExtend(records, enriched) == records \o enriched

NoAdd == [kind |-> "none", ids |-> << >>, embeddings |-> << >>, metas |-> << >>]
NoSearch == [kind |-> "none", results |-> << >>, query |-> << >>, k |-> 0]

(* add_documents(), lines 41-104 *)
add_documents(embeddings, metas) ==
    /\ Len(index) + Len(embeddings) <= MaxRecords
    /\ IF Rejected(embeddings, metas)
         THEN /\ last_add' = [kind |-> "ValueError", ids |-> << >>,
                               embeddings |-> embeddings, metas |-> metas]
              /\ UNCHANGED <<dimension, index, metadata, uuids>>
         ELSE LET document_ids == DocumentIds(Len(embeddings))
              IN  /\ uuids' = uuids + Len(embeddings)
                  /\ index' = IndexAdd(index, [k \in 1..Len(embeddings) |->
                                                  Float32Row(embeddings[k])])
                  /\ metadata' = MetadataExtend(metadata,
                                                EnrichedMetadata(metas, document_ids))
                  /\ last_add' = [kind |-> "ok", ids |-> document_ids,
                                   embeddings |-> embeddings, metas |-> metas]
                  /\ UNCHANGED dimension
    /\ last_search' = NoSearch
    /\ UNCHANGED orchVars

(* a caller's well-formed batch *)
AddBatch ==
    \E n \in {m \in 1..MaxBatch : Len(index) + m <= MaxRecords} :
        \E embeddings \in [1..n -> Vectors(dimension)], metas \in [1..n -> Metas] :
            add_documents(embeddings, metas) /\ UNCHANGED <<given, ingestVars, agentVars, chunkVars, hostVars>>

(* a caller's batch of any shape: empty, lengths that differ, rows of another
   length than the dimension *)
Rows == {[c \in 1..d |-> 0] : d \in {dimension, dimension + 1}}
Shapes(S) == UNION {[1..n -> S] : n \in 0..2}
AddAnyBatch ==
    \E embeddings \in Shapes(Rows), metas \in Shapes({[k \in {"text"} |-> "t1"]}) :
        add_documents(embeddings, metas) /\ UNCHANGED <<given, ingestVars, agentVars, chunkVars, hostVars>>

MaxStored == 2
MaxK == 2

Min(a, b) == IF a <= b THEN a ELSE b

(* get_document_count(), lines 168-175: self.index.ntotal *)
get_document_count == Len(index)

is_empty_or_single == Len(index) <= 1

(* is_empty(), lines 177-184 *)
is_empty == Len(index) = 0

RECURSIVE SumSq(_, _, _)
SumSq(a, b, c) == IF c = 0 THEN 0 ELSE (a[c] - b[c]) * (a[c] - b[c]) + SumSq(a, b, c - 1)

(* IndexFlatL2: the squared Euclidean distance of two float32 rows *)
L2Sqr(a, b) == SumSq(a, b, Len(a))

SearchRejectedAnyK(query, k) ==
    \/ Len(index) = 0
    \/ Len(query) # dimension

(* lines 130-140: the three checks, each raising ValueError *)
SearchRejected(query, k) ==
    \/ Len(index) = 0
    \/ k <= 0
    \/ Len(query) # dimension

KClampedShort(k, ntotal) == Min(k, ntotal - 1)

(* line 143: k = min(k, self.index.ntotal) *)
KClamped(k, ntotal) == Min(k, ntotal)

(* the orders in which an exhaustive scan may list the m rows nearest to q:
   distances never decrease, no row left out is nearer than a listed one, and
   rows at equal distance come in an order the library does not specify *)
Nearest(q, m) ==
    {s \in [1..m -> 1..Len(index)] :
        /\ \A a, b \in 1..m : a < b =>
              /\ s[a] # s[b]
              /\ L2Sqr(q, index[s[a]]) <= L2Sqr(q, index[s[b]])
        /\ \A p \in 1..Len(index) :
              (\A a \in 1..m : s[a] # p) =>
                  \A a \in 1..m : L2Sqr(q, index[s[a]]) <= L2Sqr(q, index[p])}

FaissSearchAnyRows(q, kk) ==
    {s \in [1..Min(kk, Len(index)) -> 1..Len(index)] :
        \A a, b \in 1..Min(kk, Len(index)) : a < b => s[a] # s[b]}

(* line 149: self.index.search(query_array, k), the labels of one query: kk of
   them, -1 where the index has no further row *)
FaissSearch(q, kk) ==
    {[j \in 1..kk |-> IF j <= Len(s) THEN s[j] ELSE -1] :
        s \in Nearest(q, Min(kk, Len(index)))}

(* lines 158-163: one result; score is 1.0 / (1.0 + distance), kept as a
   fraction; position is history, the label the result was built from *)
Result(q, idx) ==
    [document_id |-> metadata[idx]["document_id"],
     metadata    |-> metadata[idx],
     distance    |-> L2Sqr(q, index[idx]),
     score       |-> [num |-> 1, den |-> 1 + L2Sqr(q, index[idx])],
     position    |-> idx]

(* lines 152-164: the results in label order, labels of -1 skipped *)
Results(q, labels) ==
    LET valid == SelectSeq(labels, LAMBDA idx : idx # -1)
    IN  [j \in 1..Len(valid) |-> Result(q, valid[j])]

QueryArrayAsGiven(query) == query

(* line 146: np.array([query], dtype=np.float32) *)
QueryArray(query) == Float32Row(query)

(* similarity_search(), lines 106-166 *)
similarity_search(query, k) ==
    /\ IF SearchRejected(query, k)
         THEN last_search' = [kind |-> "ValueError", results |-> << >>,
                               query |-> query, k |-> k]
         ELSE \E labels \in FaissSearch(QueryArray(query), KClamped(k, Len(index))) :
                 last_search' = [kind |-> "ok",
                                 results |-> Results(QueryArray(query), labels),
                                 query |-> query, k |-> k]
    /\ last_add' = NoAdd
    /\ UNCHANGED <<dimension, index, metadata, uuids, given>>
    /\ UNCHANGED orchVars

(* the vectors inserted and searched for: float32 values, and in the first
   component also values that float32 cannot hold *)
Embeddings(d) == {v \in Vectors(d) : \A c \in 2..d : ToFloat32(v[c]) = v[c]}

(* a caller's well-formed batch, remembered as supplied *)
AddGiven ==
    \E n \in {m \in 1..MaxBatch : Len(index) + m <= MaxStored} :
        \E embeddings \in [1..n -> Embeddings(dimension)] :
            /\ add_documents(embeddings, [k \in 1..n |-> [f \in {"text"} |-> "t1"]])
            /\ given' = given \o embeddings
            /\ UNCHANGED <<ingestVars, agentVars, chunkVars, hostVars>>

(* a caller's query of the store's dimension *)
SearchQuery ==
    \E query \in Embeddings(dimension), k \in 1..MaxK :
        similarity_search(query, k) /\ UNCHANGED <<ingestVars, agentVars, chunkVars, hostVars>>

(* a caller's query of any shape: a length other than the dimension, k <= 0 *)
SearchAnyQuery ==
    \E query \in Rows, k \in {-1, 0, 1} :
        similarity_search(query, k) /\ UNCHANGED <<ingestVars, agentVars, chunkVars, hostVars>>

(* __init__(), lines 21-39 *)
InitStore ==
    /\ dimension \in Dimensions
    /\ index = << >>
    /\ metadata = << >>
    /\ uuids = 0
    /\ last_add = NoAdd
    /\ last_search = NoSearch
    /\ given = << >>

----------------------------------------------------------------------------
(* IngestionPipeline, ingestion_pipeline.py, and what it calls *)

MaxTextLen == 3

(* the characters of the documents: letters, each its own token, and a blank *)
Alphabet == <<"a", "b", "c", "d", "e", "f">>
Blank == " "

(* the extracted texts: the first n letters, or blanks only *)
Word(n) == SubSeq(Alphabet, 1, n)
Blanks(n) == [k \in 1..n |-> Blank]
Texts == {Word(n) : n \in 0..MaxTextLen} \cup {Blanks(n) : n \in 1..2}

(* characters that do not survive the tokenizer as they are: one that takes
   two tokens, one that cannot be encoded (a lone surrogate), and the
   replacement character that decoding and encoding put in their place *)
Wide == "W"
Surrogate == "S"
Replacement == "?"

(* tiktoken cl100k_base: a letter is the token of its place in the alphabet, a
   blank is token 0, the wide character is two tokens, neither a character on
   its own, and a lone surrogate is encoded as the replacement character *)
WideTokens == <<Len(Alphabet) + 1, Len(Alphabet) + 2>>
ReplacementToken == Len(Alphabet) + 3

TokensOf(ch) ==
    CASE ch = Blank -> <<0>>
      [] ch = Wide -> WideTokens
      [] ch \in {Surrogate, Replacement} -> <<ReplacementToken>>
      [] OTHER -> <<CHOOSE t \in 1..Len(Alphabet) : Alphabet[t] = ch>>

CharOf(t) ==
    IF t = 0 THEN Blank
    ELSE IF t <= Len(Alphabet) THEN Alphabet[t]
    ELSE Replacement

(* chunking.py line 59: encoding.encode(text) *)
RECURSIVE Encode(_)
Encode(text) ==
    IF text = << >> THEN << >> ELSE TokensOf(Head(text)) \o Encode(Tail(text))

(* chunking.py line 78: encoding.decode(chunk_tokens): the two tokens of a
   wide character give it back when they are together, and the replacement
   character each when they are apart *)
RECURSIVE Decode(_)
Decode(tokens) ==
    IF tokens = << >> THEN << >>
    ELSE IF Len(tokens) >= 2 /\ SubSeq(tokens, 1, 2) = WideTokens
      THEN <<Wide>> \o Decode(SubSeq(tokens, 3, Len(tokens)))
      ELSE <<CharOf(Head(tokens))>> \o Decode(Tail(tokens))

(* chunking.py lines 41-46: the settings chunk_text() refuses *)
ChunkSettingsInvalid(size, overlap) == size <= 0 \/ overlap < 0 \/ overlap >= size

IsEmpty(text) == Len(text) = 0

(* chunking.py line 49: not text.strip() *)
IsBlank(text) == \A k \in 1..Len(text) : text[k] = Blank

RECURSIVE ChunkLoopNoBreak(_, _, _, _, _)
ChunkLoopNoBreak(tokens, start_idx, size, step_size, chunks) ==
    LET end_idx == start_idx + size
        chunk_tokens == SubSeq(tokens, start_idx + 1, Min(end_idx, Len(tokens)))
        appended == Append(chunks, Decode(chunk_tokens))
    IN  IF start_idx + step_size >= Len(tokens)
          THEN appended
          ELSE ChunkLoopNoBreak(tokens, start_idx + step_size, size, step_size, appended)

(* chunking.py lines 72-86: the loop, from start_idx on *)
RECURSIVE ChunkLoop(_, _, _, _, _)
ChunkLoop(tokens, start_idx, size, step_size, chunks) ==
    LET end_idx == start_idx + size
        chunk_tokens == SubSeq(tokens, start_idx + 1, Min(end_idx, Len(tokens)))
        appended == Append(chunks, Decode(chunk_tokens))
    IN  IF end_idx >= Len(tokens) \/ start_idx + step_size >= Len(tokens)
          THEN appended
          ELSE ChunkLoop(tokens, start_idx + step_size, size, step_size, appended)

chunk_text_decoded(text, size, overlap) ==
    IF IsBlank(text) THEN << >>
    ELSE IF Len(Encode(text)) <= size THEN <<Decode(Encode(text))>>
    ELSE ChunkLoop(Encode(text), 0, size, size - overlap, << >>)

(* chunking.py chunk_text(), lines 48-88, for settings it accepts *)
chunk_text(text, size, overlap) ==
    IF IsBlank(text) THEN << >>
    ELSE IF Len(Encode(text)) <= size THEN <<text>>
    ELSE ChunkLoop(Encode(text), 0, size, size - overlap, << >>)

ChunkResultBlankFirst(text, size, overlap) ==
    IF IsBlank(text)
      THEN [kind |-> "ok", chunks |-> << >>]
      ELSE IF ChunkSettingsInvalid(size, overlap)
        THEN [kind |-> "ValueError", chunks |-> << >>]
        ELSE [kind |-> "ok", chunks |-> chunk_text(text, size, overlap)]

(* chunking.py chunk_text(), lines 40-88: the settings are checked first *)
ChunkResult(text, size, overlap) ==
    IF ChunkSettingsInvalid(size, overlap)
      THEN [kind |-> "ValueError", chunks |-> << >>]
      ELSE [kind |-> "ok", chunks |-> chunk_text(text, size, overlap)]

(* the characters of the texts that are chunked, and the texts *)
Chars == {"a", "b", Blank, Wide, Surrogate}
ChunkerTexts == UNION {[1..n -> Chars] : n \in 0..MaxTextLen}

(* the settings a caller passes *)
Sizes == -1 .. MaxTextLen + 1
Overlaps == -1 .. MaxTextLen

NoChunkCall == [kind |-> "none", chunks |-> << >>, text |-> << >>,
                chunk_size |-> 0, chunk_overlap |-> 0]

(* chunk_text() is called; it keeps no state, so one call is observed *)
ChunkText ==
    /\ chunk_call.kind = "none"
    /\ \E text \in ChunkerTexts, size \in Sizes, overlap \in Overlaps :
          chunk_call' = [kind |-> ChunkResult(text, size, overlap).kind,
                         chunks |-> ChunkResult(text, size, overlap).chunks,
                         text |-> text, chunk_size |-> size, chunk_overlap |-> overlap]
    /\ UNCHANGED <<orchVars, storeVars, ingestVars, agentVars, hostVars>>

InitChunker == chunk_call = NoChunkCall

(* the chunk settings a pipeline is built with: overlapping chunks, adjacent
   chunks, and settings that chunk_text() refuses *)
ChunkSettings == {<<2, 1>>, <<2, 0>>, <<1, 1>>}

(* the most chunks a text yields under these settings *)
MaxChunks == MaxTextLen - 1

DocumentUuids == {"d1", "d2"}
ContentTypes == {"application/pdf", "text/plain", "image/png"}
FilePath == "uploads/d"

(* text_extraction.py lines 33-36 *)
SUPPORTED_FORMATS == {"application/pdf", "text/plain"}

SupportedAny(content_type) == TRUE

(* text_extraction.py line 138: content_type not in SUPPORTED_FORMATS *)
Supported(content_type) == content_type \in SUPPORTED_FORMATS

(* text_extraction.py lines 73-75, 82-92, 110-113: a missing file, bytes that
   do not parse *)
ExtractionErrors == {"FileNotFoundError", "ValueError"}

NoStats == [document_id |-> None, chunks_created |-> 0, embeddings_generated |-> 0,
            chunks_stored |-> 0, text_length |-> 0]
NoIngest == [kind |-> "none", error |-> None, stats |-> NoStats]
NoLocals == [document_id |-> None, content_type |-> None, extracted_text |-> << >>,
             text_chunks |-> << >>, embeddings |-> << >>]

(* ingest_document() raises: the error leaves the call *)
Raised(cls) == [kind |-> "error", error |-> cls, stats |-> NoStats]

(* lines 108-114 and 143-149: the statistics returned *)
Stats(document_id, chunks_created, embeddings_generated, chunks_stored, text_length) ==
    [kind |-> "ok", error |-> None,
     stats |-> [document_id |-> document_id, chunks_created |-> chunks_created,
                embeddings_generated |-> embeddings_generated,
                chunks_stored |-> chunks_stored, text_length |-> text_length]]

(* lines 124-130: the metadata of chunk i, counted from 0 *)
ChunkMetadata(document_id, content_type, chunk_index, chunk) ==
    [f \in {"document_id", "chunk_index", "text", "content_type", "file_path"} |->
        CASE f = "document_id" -> document_id
          [] f = "chunk_index" -> chunk_index
          [] f = "text" -> chunk
          [] f = "content_type" -> content_type
          [] f = "file_path" -> FilePath]

MetadataListZipped(document_id, content_type, text_chunks) ==
    [k \in 1..Min(Len(text_chunks), Len(ing.embeddings)) |->
        ChunkMetadata(document_id, content_type, k - 1, text_chunks[k])]

(* lines 122-133: one metadata record per chunk; no additional_metadata is
   passed by the caller (blueprint.py lines 55-61) *)
MetadataList(document_id, content_type, text_chunks) ==
    [k \in 1..Len(text_chunks) |->
        ChunkMetadata(document_id, content_type, k - 1, text_chunks[k])]

NoChunksNever(text_chunks) == FALSE

(* line 106: chunks_created == 0 *)
NoChunks(text_chunks) == Len(text_chunks) = 0

(* no retrieval has been made for the request *)
NoRetrieve == [kind |-> "none", error |-> None, content |-> None,
               passages |-> << >>, llm_called |-> FALSE]

(* lines 90-94: ingest_document() is called and extracts the text;
   extract_text() refuses a content type outside the allow-list before it
   reads the file (text_extraction.py lines 137-151) *)
Extract ==
    /\ ingest_pc = "idle"
    /\ Len(index) + MaxChunks <= MaxRecords
    /\ \E document_id \in DocumentUuids, content_type \in ContentTypes :
          /\ called' = {"extract_text"}
          /\ before' = [index |-> index, metadata |-> metadata]
          /\ last_retrieve' = NoRetrieve
          /\ IF ~Supported(content_type)
               THEN /\ ing' = [NoLocals EXCEPT !.document_id = document_id,
                                               !.content_type = content_type]
                    /\ last_ingest' = Raised("UnsupportedFileFormatError")
                    /\ ingest_pc' = "idle"
               ELSE \/ \E cls \in ExtractionErrors :
                          /\ ing' = [NoLocals EXCEPT !.document_id = document_id,
                                                     !.content_type = content_type]
                          /\ last_ingest' = Raised(cls)
                          /\ ingest_pc' = "idle"
                    \/ \E extracted_text \in Texts :
                          /\ ing' = [NoLocals EXCEPT !.document_id = document_id,
                                                     !.content_type = content_type,
                                                     !.extracted_text = extracted_text]
                          /\ last_ingest' = NoIngest
                          /\ ingest_pc' = "extracted"
    /\ UNCHANGED <<chunk_size, chunk_overlap, origin, chunkVars, hostVars, orchVars, storeVars>>

(* lines 98-114: chunk_text(), and the early return when it yields nothing *)
Chunk ==
    /\ ingest_pc = "extracted"
    /\ called' = called \cup {"chunk_text"}
    /\ IF ChunkSettingsInvalid(chunk_size, chunk_overlap)
         THEN /\ last_ingest' = Raised("ValueError")
              /\ ingest_pc' = "idle"
              /\ UNCHANGED ing
         ELSE LET text_chunks == chunk_text(ing.extracted_text, chunk_size, chunk_overlap)
              IN  /\ ing' = [ing EXCEPT !.text_chunks = text_chunks]
                  /\ IF NoChunks(text_chunks)
                       THEN /\ last_ingest' = Stats(ing.document_id, 0, 0, 0,
                                                    Len(ing.extracted_text))
                            /\ ingest_pc' = "idle"
                       ELSE /\ ingest_pc' = "chunked"
                            /\ UNCHANGED last_ingest
    /\ UNCHANGED <<chunk_size, chunk_overlap, before, agentVars, chunkVars, hostVars, orchVars, storeVars>>

(* the provider's response to n texts: vectors of the store's dimension, or
   the last of them of another length *)
ProviderVectors(n) ==
    {[k \in 1..n |-> [c \in 1..(IF k = n THEN d ELSE dimension) |-> 0]] :
        d \in {dimension, dimension + 1}}

(* line 118: generate_embeddings(); embedding_service.py lines 61-62 refuse an
   empty list, lines 65-71 return one vector per item of the provider's
   response, however many those are, lines 73-74 raise when the provider
   fails *)
Embed ==
    /\ ingest_pc = "chunked"
    /\ called' = called \cup {"generate_embeddings"}
    /\ IF Len(ing.text_chunks) = 0
         THEN /\ last_ingest' = Raised("ValueError")
              /\ ingest_pc' = "idle"
              /\ UNCHANGED ing
         ELSE \/ /\ last_ingest' = Raised("Exception")
                 /\ ingest_pc' = "idle"
                 /\ UNCHANGED ing
              \/ \E n \in {m \in Len(ing.text_chunks) - 1 .. Len(ing.text_chunks) + 1 :
                              Len(index) + m <= MaxRecords} :
                    \E embeddings \in ProviderVectors(n) :
                       /\ ing' = [ing EXCEPT !.embeddings = embeddings]
                       /\ ingest_pc' = "embedded"
                       /\ UNCHANGED last_ingest
    /\ UNCHANGED <<chunk_size, chunk_overlap, before, agentVars, chunkVars, hostVars, orchVars, storeVars>>

(* lines 119-149: the metadata, add_documents() and the statistics *)
Store ==
    /\ ingest_pc = "embedded"
    /\ called' = called \cup {"add_documents"}
    /\ add_documents(ing.embeddings,
                     MetadataList(ing.document_id, ing.content_type, ing.text_chunks))
    /\ last_ingest' =
          IF last_add'.kind = "ok"
            THEN Stats(ing.document_id, Len(ing.text_chunks), Len(ing.embeddings),
                       Len(last_add'.ids), Len(ing.extracted_text))
            ELSE Raised(last_add'.kind)
    /\ origin' = IF last_add'.kind = "ok"
                    THEN origin \o [k \in 1..Len(last_add'.ids) |-> ing.document_id]
                    ELSE origin
    /\ ingest_pc' = "idle"
    /\ UNCHANGED <<chunk_size, chunk_overlap, ing, before, given, last_retrieve, chunkVars, hostVars>>

(* __init__(), lines 33-53 *)
InitIngest ==
    /\ \E settings \in ChunkSettings :
          chunk_size = settings[1] /\ chunk_overlap = settings[2]
    /\ ingest_pc = "idle"
    /\ ing = NoLocals
    /\ last_ingest = NoIngest
    /\ called = {}
    /\ before = [index |-> << >>, metadata |-> << >>]

(* the pipeline while another component is observed *)
IngestIdle == InitIngest /\ chunk_size = 2 /\ chunk_overlap = 1

----------------------------------------------------------------------------
(* DocumentUnderstandingAgent, document_understanding.py: the first step of
   the run that generate_blueprint() starts once ingest_document() has
   returned (blueprint.py lines 51-74) *)

(* lines 88-91: the output when no context was retrieved *)
NoContext == "No relevant context found"

(* the completions the LLM gives *)
Responses == {"assessment"}

(* lines 80-85: the text of each result, in result order *)
ContextParts(results) ==
    [j \in 1..Len(results) |->
        IF "text" \in DOMAIN results[j].metadata THEN results[j].metadata["text"] ELSE << >>]

(* _process() raises: the error leaves the agent *)
AgentRaised(cls) == [NoRetrieve EXCEPT !.kind = "error", !.error = cls]

(* _process(), lines 60-99: the query is embedded (line 76; the provider may
   fail, or answer with a vector of any length), the store is searched
   (line 77), and with a context the LLM is called (line 97; it may fail) *)
Retrieve ==
    /\ ingest_pc = "idle"
    /\ last_ingest.kind = "ok"
    /\ last_retrieve.kind = "none"
    /\ \/ /\ last_retrieve' = AgentRaised("Exception")
          /\ UNCHANGED storeVars
       \/ \E query_embedding \in Rows, k \in 1..MaxK :
             /\ similarity_search(query_embedding, k)
             /\ IF last_search'.kind # "ok"
                  THEN last_retrieve' = AgentRaised(last_search'.kind)
                  ELSE LET results == last_search'.results
                           passages == [j \in 1..Len(results) |-> results[j].position]
                       IN  IF Len(ContextParts(results)) = 0
                             THEN last_retrieve' = [NoRetrieve EXCEPT !.kind = "ok",
                                                                      !.content = NoContext]
                             ELSE \/ \E response \in Responses :
                                        last_retrieve' = [NoRetrieve EXCEPT
                                                             !.kind = "ok",
                                                             !.content = response,
                                                             !.passages = passages,
                                                             !.llm_called = TRUE]
                                  \/ last_retrieve' = [AgentRaised("Exception") EXCEPT
                                                          !.passages = passages,
                                                          !.llm_called = TRUE]
    /\ UNCHANGED <<origin, ingestVars, orchVars, chunkVars, hostVars>>

(* no request has been served *)
InitAgent ==
    /\ last_retrieve = NoRetrieve
    /\ origin = << >>

----------------------------------------------------------------------------
(* The host, blueprint.py: generate_blueprint() hands ingest_document() and
   execute() to the default thread pool (lines 53-60 and 70-74), so the calls
   of concurrent requests run on worker threads against the one store of
   core/services.py (line 19) *)

Workers == {"w1", "w2"}

(* the chunk embedding of the document a worker ingests, a float32 value *)
WorkerRow(w) == [c \in 1..dimension |-> IF w = "w1" THEN 0 ELSE 2]

(* a worker outside add_documents() *)
NoInsert == [pc |-> "idle", rows |-> << >>, enriched |-> << >>, ids |-> << >>]

(* rows that workers inside add_documents() have still to put in the index or
   in the metadata *)
RECURSIVE Pending(_)
Pending(W) ==
    IF W = {}
      THEN 0
      ELSE LET w == CHOOSE v \in W : TRUE
           IN  Len(host[w].rows) + Pending(W \ {w})

(* add_documents(), lines 61-89, on a worker: the batch passes the checks, the
   identifiers are drawn, the metadata is enriched and the array is built *)
InsertBegin(w) ==
    /\ host[w].pc = "idle"
    /\ \E n \in {m \in 1..MaxBatch : Len(metadata) + Pending(Workers) + m <= MaxStored} :
          LET embeddings == [k \in 1..n |-> WorkerRow(w)]
              metas == [k \in 1..n |-> [f \in {"text"} |-> w]]
              document_ids == DocumentIds(n)
          IN  /\ ~Rejected(embeddings, metas)
              /\ uuids' = uuids + n
              /\ host' = [host EXCEPT ![w] =
                             [pc |-> "add",
                              rows |-> [k \in 1..n |-> Float32Row(embeddings[k])],
                              enriched |-> EnrichedMetadata(metas, document_ids),
                              ids |-> document_ids]]
    /\ UNCHANGED <<dimension, index, metadata, last_add, last_search, given>>
    /\ UNCHANGED <<orchVars, ingestVars, agentVars, chunkVars, runs>>

(* add_documents(), line 92, on a worker: self.index.add(embeddings_array) *)
InsertAdd(w) ==
    /\ host[w].pc = "add"
    /\ index' = IndexAdd(index, host[w].rows)
    /\ host' = [host EXCEPT ![w].pc = "extend"]
    /\ UNCHANGED <<dimension, metadata, uuids, last_add, last_search, given>>
    /\ UNCHANGED <<orchVars, ingestVars, agentVars, chunkVars, runs>>

(* add_documents(), lines 95-104, on a worker:
   self.metadata.extend(enriched_metadata), return document_ids *)
InsertExtend(w) ==
    /\ host[w].pc = "extend"
    /\ metadata' = MetadataExtend(metadata, host[w].enriched)
    /\ last_add' = [NoAdd EXCEPT !.kind = "ok", !.ids = host[w].ids]
    /\ last_search' = NoSearch
    /\ host' = [host EXCEPT ![w] = NoInsert]
    /\ UNCHANGED <<dimension, index, uuids, given>>
    /\ UNCHANGED <<orchVars, ingestVars, agentVars, chunkVars, runs>>

(* similarity_search(), lines 106-166, on a worker that is not inside
   add_documents(), whatever the other workers are doing: line 159 reads
   self.metadata[idx] for each label, an IndexError when the list is shorter *)
SearchShared(w) ==
    /\ host[w].pc = "idle"
    /\ \E query \in {WorkerRow(v) : v \in Workers}, k \in 1..MaxK :
          IF SearchRejected(query, k)
            THEN last_search' = [kind |-> "ValueError", results |-> << >>,
                                 query |-> query, k |-> k]
            ELSE \E labels \in FaissSearch(QueryArray(query), KClamped(k, Len(index))) :
                    IF \E j \in 1..Len(labels) : labels[j] > Len(metadata)
                      THEN last_search' = [kind |-> "IndexError", results |-> << >>,
                                           query |-> query, k |-> k]
                      ELSE last_search' = [kind |-> "ok",
                                           results |-> Results(QueryArray(query), labels),
                                           query |-> query, k |-> k]
    /\ last_add' = NoAdd
    /\ UNCHANGED <<dimension, index, metadata, uuids, given, host, runs>>
    /\ UNCHANGED <<orchVars, ingestVars, agentVars, chunkVars>>

(* the steps of the global orchestrator, core/services.py lines 46-78: steps
   of distinct names, one retry each, no handler *)
BlueprintSteps ==
    <<[name |-> "a", retries |-> MaxRetries, retry_delay |-> DefaultRetryDelay,
       on_failure |-> FALSE],
      [name |-> "b", retries |-> MaxRetries, retry_delay |-> DefaultRetryDelay,
       on_failure |-> FALSE]>>

(* blueprint.py lines 65-68: the initial input of every request *)
BlueprintInput == [k \in {"query", "k"} |-> IF k = "query" THEN "q" ELSE "5"]

(* a worker that has not called execute(); outs and own are history: what
   _execute_step() returned to the worker, step by step, and the records the
   worker appended to the log *)
NoRun == [pc |-> "idle", i |-> 1, cumulative_data |-> EmptyMap, result |-> NoResult,
          outs |-> << >>, own |-> << >>]

(* execute() on a worker, lines 147-151: the shared log is replaced by an
   empty list, the worker's cumulative_data is a copy of the input *)
RunBegin(w) ==
    /\ runs[w].pc = "idle"
    /\ execution_log' = FreshLog(execution_log)
    /\ runs' = [runs EXCEPT ![w] = [NoRun EXCEPT !.pc = "for",
                                                 !.cumulative_data = Copy(BlueprintInput)]]
    /\ UNCHANGED <<steps, initial_input, cumulative_data, step_log, pc, i, attempt, err,
                   exc, output, result, calls, handlerCalls, stepOut, rerun, delays>>
    /\ UNCHANGED <<storeVars, ingestVars, agentVars, chunkVars, host>>

(* execute() on a worker, lines 153-174 and 187-188: _execute_step() returned
   out for the worker's next step; the record goes to self.execution_log,
   whichever list that is by now *)
RunStepReturns(w, out) ==
    /\ runs[w].pc = "for"
    /\ runs[w].i <= Len(steps)
    /\ LET step == steps[runs[w].i]
           rec == SuccessRecord(NewStepLog(step, runs[w].i, runs[w].cumulative_data), out)
       IN  /\ execution_log' = LogSuccess(execution_log, rec)
           /\ runs' = [runs EXCEPT
                         ![w].cumulative_data = Merge(runs[w].cumulative_data, step.name, out),
                         ![w].i = runs[w].i + 1,
                         ![w].outs = Append(runs[w].outs, out),
                         ![w].own = LogSuccess(runs[w].own, rec)]
    /\ UNCHANGED <<steps, initial_input, cumulative_data, step_log, pc, i, attempt, err,
                   exc, output, result, calls, handlerCalls, stepOut, rerun, delays>>
    /\ UNCHANGED <<storeVars, ingestVars, agentVars, chunkVars, host>>

(* execute() on a worker, lines 153-167 and 176-188: _execute_step() raised e
   for the worker's next step; execute() raises *)
RunStepRaises(w, e) ==
    /\ runs[w].pc = "for"
    /\ runs[w].i <= Len(steps)
    /\ LET step == steps[runs[w].i]
           rec == FailureRecord(NewStepLog(step, runs[w].i, runs[w].cumulative_data), e)
       IN  /\ execution_log' = LogFailure(execution_log, rec)
           /\ runs' = [runs EXCEPT
                         ![w].pc = "done",
                         ![w].result = [kind |-> "raised", value |-> EmptyMap,
                                        error |-> e, cause |-> NoError],
                         ![w].own = LogFailure(runs[w].own, rec)]
    /\ UNCHANGED <<steps, initial_input, cumulative_data, step_log, pc, i, attempt, err,
                   exc, output, result, calls, handlerCalls, stepOut, rerun, delays>>
    /\ UNCHANGED <<storeVars, ingestVars, agentVars, chunkVars, host>>

(* execute() on a worker, lines 190-191: return cumulative_data *)
RunReturn(w) ==
    /\ runs[w].pc = "for"
    /\ runs[w].i > Len(steps)
    /\ runs' = [runs EXCEPT
                  ![w].pc = "done",
                  ![w].result = [kind |-> "returned", value |-> runs[w].cumulative_data,
                                 error |-> NoError, cause |-> NoError]]
    /\ UNCHANGED orchVars
    /\ UNCHANGED <<storeVars, ingestVars, agentVars, chunkVars, host>>

(* no worker is inside a call *)
InitHost ==
    /\ host = [w \in Workers |-> NoInsert]
    /\ runs = [w \in Workers |-> NoRun]

(* the store while only the orchestrator is observed *)
StoreIdle == InitStore /\ dimension = 1

(* the orchestrator while only the store is observed *)
OrchIdle ==
    /\ InitOrch
    /\ steps = <<[name |-> "a", retries |-> 0, retry_delay |-> DefaultRetryDelay,
                  on_failure |-> FALSE]>>

Init == InitOrch /\ StoreIdle /\ IngestIdle /\ InitAgent /\ InitChunker /\ InitHost

Spec == Init /\ [][Next]_vars

InitIndex == OrchIdle /\ InitStore /\ IngestIdle /\ InitAgent /\ InitChunker /\ InitHost

NextIndex ==
    \/ AddBatch
    \/ AddAnyBatch

SpecIndex == InitIndex /\ [][NextIndex]_vars

NextSearch ==
    \/ AddGiven
    \/ SearchQuery
    \/ SearchAnyQuery

SpecSearch == InitIndex /\ [][NextSearch]_vars

InitPipeline == OrchIdle /\ InitStore /\ InitIngest /\ InitAgent /\ InitChunker /\ InitHost

NextIngest ==
    \/ Extract
    \/ Chunk
    \/ Embed
    \/ Store

SpecIngest == InitPipeline /\ [][NextIngest]_vars

InitRequests == OrchIdle /\ StoreIdle /\ IngestIdle /\ InitAgent /\ InitChunker /\ InitHost

NextRequests ==
    \/ Extract
    \/ Chunk
    \/ Embed
    \/ Store
    \/ Retrieve

SpecRequests == InitRequests /\ [][NextRequests]_vars

NextChunker == ChunkText

SpecChunker == InitRequests /\ [][NextChunker]_vars

NextShared ==
    \/ \E w \in Workers : InsertBegin(w)
    \/ \E w \in Workers : InsertAdd(w)
    \/ \E w \in Workers : InsertExtend(w)
    \/ \E w \in Workers : SearchShared(w)

(* one run after another of an orchestrator of one or two steps, in which
   every agent and handler call returns or raises and the thread inside
   execute() keeps running: a step that can be taken is taken *)
InitLive ==
    /\ steps \in {list \in StepLists : Len(list) <= 2} /\ NoRunYet
    /\ StoreIdle /\ IngestIdle /\ InitAgent /\ InitChunker /\ InitHost

SpecLive == InitLive /\ [][Next]_vars /\ WF_vars(Next)

(* an orchestrator whose steps have retry delays of their own *)
DelayedSteps ==
    {<<[name |-> "a", retries |-> MaxRetries, retry_delay |-> first, on_failure |-> TRUE],
       [name |-> "b", retries |-> MaxRetries, retry_delay |-> second, on_failure |-> FALSE]>> :
        first \in RetryDelays, second \in RetryDelays}

InitDelay ==
    /\ steps \in DelayedSteps /\ NoRunYet
    /\ StoreIdle /\ IngestIdle /\ InitAgent /\ InitChunker /\ InitHost

SpecDelay == InitDelay /\ [][Next]_vars

SpecShared == InitRequests /\ [][NextShared]_vars

InitOverlap ==
    /\ InitOrch /\ steps = BlueprintSteps
    /\ StoreIdle /\ IngestIdle /\ InitAgent /\ InitChunker /\ InitHost

NextOverlap ==
    \/ \E w \in Workers : RunBegin(w)
    \/ \E w \in Workers, out \in Outputs : RunStepReturns(w, out)
    \/ \E w \in Workers, e \in AgentErrors : RunStepRaises(w, e)
    \/ \E w \in Workers : RunReturn(w)

SpecOverlap == InitOverlap /\ [][NextOverlap]_vars

----------------------------------------------------------------------------
(* Properties of the orchestrator *)

(* number of times the agent of step idx was invoked in the current run *)
Invoked(idx) == Cardinality({k \in 1..Len(calls) : calls[k].step = idx})

(* the on_failure handler of step idx was called and returned normally *)
HandlerReturned(idx) ==
    \E k \in 1..Len(handlerCalls) :
        handlerCalls[k].step = idx /\ handlerCalls[k].raised = NoError

(* the on_failure handler of step idx was called and raised *)
HandlerRaised(idx) ==
    \E k \in 1..Len(handlerCalls) :
        handlerCalls[k].step = idx /\ handlerCalls[k].raised # NoError

(* the last execute() call has ended *)
Finished == pc = "idle" /\ result.kind # "none"

(* the last execute() call raised; i is the step it halted at *)
Halted == pc = "idle" /\ result.kind = "raised"

(* positions of the log that hold a record of step idx *)
RecordsOf(idx) == {k \in 1..Len(execution_log) : execution_log[k].step_index = idx - 1}

(* the data model's requirement: step names are pairwise distinct *)
DistinctNames == \A j, k \in 1..Len(steps) : steps[j].name = steps[k].name => j = k

(* ... and none of them is a key of the run's initial input *)
FreshNames == \A j \in 1..Len(steps) : steps[j].name \notin DOMAIN initial_input

(* the initial input extended with name_j -> output_j for the steps j < idx *)
Expected(idx) ==
    [k \in DOMAIN initial_input \cup {steps[j].name : j \in 1..(idx - 1)} |->
        IF \E j \in 1..(idx - 1) : steps[j].name = k
          THEN stepOut[CHOOSE j \in 1..(idx - 1) : steps[j].name = k]
          ELSE initial_input[k]]

(* C1: a step whose agent failed on every invocation has been invoked exactly
   retries + 1 times when its failure is handled: when the on_failure handler
   is about to be called or was called, when the error propagates, and when
   the step is logged FAILED. *)
C1_RetryCountLaw ==
    /\ pc \in {"on_failure", "except"} => Invoked(i) = steps[i].retries + 1
    /\ \A k \in 1..Len(handlerCalls) :
          Invoked(handlerCalls[k].step) = steps[handlerCalls[k].step].retries + 1
    /\ \A k \in 1..Len(execution_log) :
          execution_log[k].state = FAILED =>
             Invoked(execution_log[k].step_index + 1)
                = steps[execution_log[k].step_index + 1].retries + 1

C1_Witness ==
    /\ pc = "on_failure"
    /\ steps[i].retries >= 1
    /\ Invoked(i) = steps[i].retries + 1

(* C2 (as claimed): after execute() raised at a step without handler, the log
   holds exactly one record for that step, in state FAILED, and none for a
   later step. *)
C2_OneFailedRecord ==
    (Halted /\ ~steps[i].on_failure) =>
        /\ Cardinality(RecordsOf(i)) = 1
        /\ \A k \in RecordsOf(i) : execution_log[k].state = FAILED
        /\ \A k \in 1..Len(execution_log) : execution_log[k].step_index <= i - 1

(* C3 (as claimed): in the log of a finished run, attempts is the number of
   times the step's agent was invoked. *)
C3_AttemptsAreInvocations ==
    Finished =>
        \A k \in 1..Len(execution_log) :
            execution_log[k].attempts = Invoked(execution_log[k].step_index + 1)

(* C4: with pairwise distinct step names, once the on_failure handler of step j
   returned, the run does not halt at step j, a finished run has invoked the
   agent of step j + 1, every later agent invocation sees the handler's map
   under step j's name, and so does the map execute() returns. *)
C4_HandlerSubstitution ==
    DistinctNames =>
        \A j \in 1..Len(steps) :
            HandlerReturned(j) =>
                /\ j <= Len(stepOut)
                /\ stepOut[j] \in HandlerOutputs
                /\ pc = "except" => i # j
                /\ Halted => i # j
                /\ (Finished /\ j < Len(steps)) => Invoked(j + 1) >= 1
                /\ \A k \in 1..Len(calls) :
                      calls[k].step > j =>
                         /\ steps[j].name \in DOMAIN calls[k].input
                         /\ calls[k].input[steps[j].name] = stepOut[j]
                /\ result.kind = "returned" =>
                      /\ steps[j].name \in DOMAIN result.value
                      /\ result.value[steps[j].name] = stepOut[j]

C4_Witness ==
    /\ DistinctNames
    /\ result.kind = "returned"
    /\ Len(steps) >= 2
    /\ HandlerReturned(1)
    /\ result.value[steps[1].name] \in HandlerOutputs

(* C5 (as claimed): the record of a step whose handler returned normally has
   state FAILED. *)
C5_HandledStepLoggedFailed ==
    \A j \in 1..Len(steps) :
        HandlerReturned(j) =>
            \A k \in RecordsOf(j) : execution_log[k].state = FAILED

(* C5 (amended): the record of a step whose handler returned normally has
   state SUCCESS, the handler's map as output and no error; it is logged once,
   as soon as the step is over. *)
C5_HandledStepLoggedSuccess ==
    \A j \in 1..Len(steps) :
        HandlerReturned(j) =>
            /\ \A k \in RecordsOf(j) :
                  /\ execution_log[k].state = SUCCESS
                  /\ execution_log[k].output = stepOut[j]
                  /\ execution_log[k].error = None
            /\ (i > j \/ Finished) => Cardinality(RecordsOf(j)) = 1

C5_Witness ==
    /\ Finished
    /\ \E j \in 1..Len(steps) :
          /\ HandlerReturned(j)
          /\ \E k \in RecordsOf(j) : execution_log[k].state = SUCCESS

(* C6: when the on_failure handler of a step raised, execute() raises the
   handler's error with the agent's error as its cause, every record of the
   step is FAILED with the handler's error text, the step is in the log, and
   no agent of a later step was invoked. *)
C6_HandlerFailure ==
    \A h \in 1..Len(handlerCalls) :
        (Finished /\ handlerCalls[h].raised # NoError) =>
            /\ result.kind = "raised"
            /\ i = handlerCalls[h].step
            /\ result.error = handlerCalls[h].raised
            /\ result.cause = handlerCalls[h].error
            /\ result.cause = err
            /\ result.cause \in AgentErrors
            /\ RecordsOf(i) # {}
            /\ \A k \in RecordsOf(i) :
                  /\ execution_log[k].state = FAILED
                  /\ execution_log[k].error = Str(handlerCalls[h].raised)
            /\ \A k \in 1..Len(calls) : calls[k].step <= i

C6_Witness ==
    /\ Halted
    /\ HandlerRaised(i)
    /\ i < Len(steps)
    /\ steps[i].retries >= 1

(* C7: when a step without handler exhausted its attempts, execute() raises the
   agent's last error itself (no wrapping, no cause), no agent of a later step
   was invoked, and the records of the earlier steps are in the log, in order,
   with state SUCCESS and their outputs. *)
C7_NoHandlerPropagates ==
    (Halted /\ ~steps[i].on_failure) =>
        /\ result.error = err
        /\ result.error \in AgentErrors
        /\ result.cause = NoError
        /\ \A k \in 1..Len(calls) : calls[k].step <= i
        /\ Len(execution_log) >= i
        /\ \A j \in 1..(i - 1) :
              /\ execution_log[j].step_index = j - 1
              /\ execution_log[j].step_name = steps[j].name
              /\ execution_log[j].state = SUCCESS
              /\ execution_log[j].output = stepOut[j]

C7_Witness ==
    /\ Halted
    /\ ~steps[i].on_failure
    /\ i >= 2
    /\ execution_log[1].state = SUCCESS

(* C8: with step names pairwise distinct and distinct from the initial input's
   keys, every agent invocation of step i got, and every record of step i
   holds as input snapshot, the initial input extended with name_j -> output_j
   for exactly the steps j < i; a returned map is the initial input extended
   with one entry per step.  (The records are compared in every state, so a
   snapshot changed by a later merge would break it.) *)
C8_CumulativeInput ==
    (DistinctNames /\ FreshNames) =>
        /\ \A k \in 1..Len(calls) : calls[k].input = Expected(calls[k].step)
        /\ \A k \in 1..Len(execution_log) :
              execution_log[k].input = Expected(execution_log[k].step_index + 1)
        /\ result.kind = "returned" =>
              /\ result.value = Expected(Len(steps) + 1)
              /\ DOMAIN result.value
                   = DOMAIN initial_input \cup {steps[j].name : j \in 1..Len(steps)}

C8_Witness ==
    /\ DistinctNames
    /\ FreshNames
    /\ Len(steps) >= 2
    /\ DOMAIN initial_input # {}
    /\ result.kind = "returned"
    /\ Len(execution_log) = Len(steps)
    /\ execution_log[2].input # execution_log[1].input

(* get_execution_log(), lines 193-200: a copy of the list *)
get_execution_log == [k \in 1..Len(execution_log) |-> execution_log[k]]

(* C9: whatever execute() calls came before, the log holds only records built
   by the call in progress or last finished: none from an earlier call. *)
C9_LogRebuilt ==
    /\ \A k \in 1..Len(get_execution_log) : ~get_execution_log[k].stale
    /\ \A k \in 1..Len(get_execution_log) : get_execution_log[k].step_index + 1 <= i
    /\ Len(get_execution_log) <= Len(steps) + 1

C9_Witness ==
    /\ rerun
    /\ Finished
    /\ get_execution_log # << >>

(* the list comprehension of lines 210-213 and 223-226: the step names of the
   records of the log in the given state, in log order *)
RECURSIVE StepNames(_, _)
StepNames(log, state) ==
    IF log = << >>
      THEN << >>
      ELSE (IF Head(log).state = state THEN <<Head(log).step_name>> ELSE << >>)
           \o StepNames(Tail(log), state)

get_failed_steps_all == StepNames(execution_log, FAILED) \o StepNames(execution_log, SUCCESS)

(* get_failed_steps(), lines 202-213 *)
get_failed_steps == StepNames(execution_log, FAILED)

(* get_successful_steps(), lines 215-226 *)
get_successful_steps == StepNames(execution_log, SUCCESS)

(* positions of the log whose record is in the given state *)
InState(state) == {k \in 1..Len(execution_log) : execution_log[k].state = state}

(* the n-th smallest element of a set of positions *)
Nth(positions, n) ==
    CHOOSE k \in positions : Cardinality({m \in positions : m <= k}) = n

(* names is the list of step names of the records in the given state, in log
   order *)
NamesOf(names, state) ==
    /\ Len(names) = Cardinality(InState(state))
    /\ \A n \in 1..Len(names) :
          names[n] = execution_log[Nth(InState(state), n)].step_name

(* C27: get_failed_steps() returns, in log order, the step names of the records
   of the log in state FAILED and get_successful_steps() those in state SUCCESS;
   every record of the log is in one of the two states, no step has a record in
   each state, and with pairwise distinct step names no name is in both
   lists. *)
C27_FailedAndSuccessful ==
    /\ NamesOf(get_failed_steps, FAILED)
    /\ NamesOf(get_successful_steps, SUCCESS)
    /\ Len(get_failed_steps) + Len(get_successful_steps) = Len(execution_log)
    /\ \A j, k \in 1..Len(execution_log) :
          execution_log[j].step_index = execution_log[k].step_index
            => execution_log[j].state = execution_log[k].state
    /\ DistinctNames =>
          \A j \in 1..Len(get_failed_steps), k \in 1..Len(get_successful_steps) :
            get_failed_steps[j] # get_successful_steps[k]

C27_Witness ==
    /\ Halted
    /\ get_successful_steps # << >>
    /\ get_failed_steps # << >>

(* step j of the run in progress or last finished has a record in state
   SUCCESS in the log *)
Succeeded(j) ==
    \E k \in 1..Len(execution_log) :
        execution_log[k].step_index = j - 1 /\ execution_log[k].state = SUCCESS

(* C29: within a run the agents are invoked in list order without overlap: the
   first invocation is of step 1, an invocation of step j is followed by one of
   step j or of step j + 1, never by one of an earlier step, every step before
   an invoked one has reached SUCCESS by then (its agent or its handler
   returned), and the step being run is the last one invoked. *)
C29_ListOrder ==
    /\ calls # << >> => calls[1].step = 1
    /\ \A n \in 1..Len(calls) - 1 :
          calls[n + 1].step \in {calls[n].step, calls[n].step + 1}
    /\ \A n \in 1..Len(calls) : \A j \in 1..calls[n].step - 1 : Succeeded(j)
    /\ \A n \in 1..Len(calls) : calls[n].step <= i
    /\ pc \in {"returned", "sleep", "on_failure", "except"} =>
          /\ calls # << >>
          /\ calls[Len(calls)].step = i

C29_Witness ==
    /\ Len(calls) >= 3
    /\ calls[1].step = 1
    /\ calls[2].step = 1
    /\ calls[Len(calls)].step = 2
    /\ handlerCalls # << >>
    /\ handlerCalls[1].step = 1

(* the transitions the record of a step may take *)
Transitions ==
    {<<PENDING, RUNNING>>, <<RUNNING, SUCCESS>>, <<RUNNING, RETRYING>>,
     <<RETRYING, RUNNING>>, <<RUNNING, FAILED>>}

(* a step of the model that acts on the record of the step under way: every
   step but the start of a run and the building of the next record *)
SameRecord == pc \notin {"idle", "for"}

(* an attempt raises with attempt < retries *)
AttemptRaisesBeforeLast == pc = "call" /\ pc' = "sleep"

C30_Step ==
    SameRecord =>
      /\ step_log'.state # step_log.state =>
            <<step_log.state, step_log'.state>> \in Transitions
      /\ AttemptRaisesBeforeLast <=>
            (step_log.state # RETRYING /\ step_log'.state = RETRYING)
      /\ step_log.state = RETRYING =>
            step_log'.state = RUNNING /\ attempt' = attempt + 1
      /\ step_log.state \in {SUCCESS, FAILED} => step_log'.state = step_log.state

(* C30 as stated: the state of a step's record takes only the transitions
   PENDING->RUNNING, RUNNING->SUCCESS, RUNNING->RETRYING, RETRYING->RUNNING and
   RUNNING->FAILED; it becomes RETRYING exactly when an attempt raises with
   attempt < retries, and RUNNING with attempt + 1 follows; SUCCESS and FAILED
   are never left. *)
C30_StateMachine == [][C30_Step]_vars

(* the class the code raises for an invalid argument *)
InvalidArgument == "ValueError"

(* C31 as stated: a step whose agent failed with an invalid argument is not
   invoked again: no retry is scheduled after such a failure, whatever the
   step's retry budget. *)
C31_InvalidArgumentNotRetried == pc = "sleep" => err.cls # InvalidArgument

(* the delays slept after n agent invocations of the run *)
DelaysAfter(n) == {d \in 1..Len(delays) : delays[d].after = n}

(* the delays and the agent invocations of step j *)
DelaysOf(j) == {d \in 1..Len(delays) : delays[d].step = j}
CallsOf(j) == {n \in 1..Len(calls) : calls[n].step = j}

(* C35: between two consecutive invocations of the agent of one step there is
   exactly one delay, of that step's retry_delay; a delay is slept only after
   an invocation of the step and is followed by the next invocation of the
   same step, so none follows the last attempt of a step; a step that has
   ended had one delay less than it had agent invocations. *)
C35_FixedDelay ==
    /\ \A n \in 1..Len(calls) - 1 :
          IF calls[n + 1].step = calls[n].step
            THEN /\ Cardinality(DelaysAfter(n)) = 1
                 /\ \A d \in DelaysAfter(n) :
                       /\ delays[d].step = calls[n].step
                       /\ delays[d].seconds = steps[calls[n].step].retry_delay
            ELSE DelaysAfter(n) = {}
    /\ DelaysAfter(0) = {}
    /\ Cardinality(DelaysAfter(Len(calls))) =
          IF calls # << >> /\ pc = "call" /\ attempt > 0 THEN 1 ELSE 0
    /\ \A d \in DelaysAfter(Len(calls)) :
          /\ delays[d].step = i
          /\ delays[d].seconds = steps[i].retry_delay
    /\ \A j \in 1..Len(steps) :
          (CallsOf(j) # {} /\ (j < i \/ Finished)) =>
              Cardinality(DelaysOf(j)) = Cardinality(CallsOf(j)) - 1

C35_Witness ==
    /\ Finished
    /\ Len(delays) = 2
    /\ delays[1].step = 1
    /\ delays[2].step = 2
    /\ delays[1].seconds # delays[2].seconds
    /\ handlerCalls # << >>

(* the last step before step idx that is named name *)
LastNamed(name, idx) ==
    CHOOSE j \in 1..(idx - 1) :
        /\ steps[j].name = name
        /\ \A h \in (j + 1)..(idx - 1) : steps[h].name # name

(* what step idx finds in its input, names shared or not: under each name the
   output of the last earlier step of that name, else the initial input's
   value *)
Visible(idx) ==
    [k \in DOMAIN initial_input \cup {steps[j].name : j \in 1..(idx - 1)} |->
        IF \E j \in 1..(idx - 1) : steps[j].name = k
          THEN stepOut[LastNamed(k, idx)]
          ELSE initial_input[k]]

(* two steps share a name, or a step has the name of a key of the input *)
NameClash == ~(DistinctNames /\ FreshNames)

(* C36: when step names clash with each other or with a key of the initial
   input, no error comes of it (execute() raises only what an agent or a
   handler raised); every invocation and every record of a step shows, under a
   clashing name, the value of the last earlier step of that name (or the
   input's), and the returned map has one entry per name, holding the output
   of the last step of that name. *)
C36_SilentOverwrite ==
    NameClash =>
        /\ result.kind = "raised" => result.error \in AgentErrors \cup HandlerErrors
        /\ \A k \in 1..Len(calls) : calls[k].input = Visible(calls[k].step)
        /\ \A k \in 1..Len(execution_log) :
              execution_log[k].input = Visible(execution_log[k].step_index + 1)
        /\ result.kind = "returned" =>
              /\ result.value = Visible(Len(steps) + 1)
              /\ DOMAIN result.value
                   = DOMAIN initial_input \cup {steps[j].name : j \in 1..Len(steps)}

C36_Witness ==
    /\ result.kind = "returned"
    /\ Len(steps) >= 2
    /\ steps[1].name = steps[2].name
    /\ steps[1].name \in DOMAIN initial_input
    /\ stepOut[1] # stepOut[2]
    /\ execution_log[1].input[steps[1].name] = initial_input[steps[1].name]
    /\ execution_log[2].input[steps[2].name] = stepOut[1]
    /\ result.value[steps[2].name] = stepOut[2]

(* the on_failure handler of step idx was called *)
HandlerCalled(idx) == \E k \in 1..Len(handlerCalls) : handlerCalls[k].step = idx

(* the agent of step idx returned, after however many failed attempts: the
   step has an output and it is not its handler's *)
AgentSucceeded(idx) == idx <= Len(stepOut) /\ ~HandlerCalled(idx)

(* step idx is behind the run: its record is in the log *)
Logged(idx) == idx < i \/ pc \in {"for", "idle"}

(* C37: when the agent of a step returns after f failed attempts, f <= retries,
   it was invoked f + 1 times, each time with the same input, with one delay
   after each failure; the handler is not invoked; the step is logged once, as
   SUCCESS with the output of the attempt that returned; the run does not halt
   at the step and a finished run has gone on to the next step. *)
C37_RecoveredByRetry ==
    \A j \in 1..Len(steps) :
        AgentSucceeded(j) =>
            /\ Invoked(j) >= 1
            /\ Invoked(j) <= steps[j].retries + 1
            /\ Cardinality(DelaysOf(j)) = Invoked(j) - 1
            /\ (j = i /\ pc = "returned") =>
                  Invoked(j) = attempt + 1 /\ output = stepOut[j]
            /\ \A k, h \in CallsOf(j) : calls[k].input = calls[h].input
            /\ Logged(j) =>
                  /\ i > j
                  /\ Cardinality({k \in 1..Len(execution_log) :
                                     execution_log[k].step_index = j - 1}) = 1
                  /\ \A k \in 1..Len(execution_log) :
                        execution_log[k].step_index = j - 1 =>
                            /\ execution_log[k].state = SUCCESS
                            /\ execution_log[k].output = stepOut[j]
                  /\ (Finished /\ j < Len(steps)) => Invoked(j + 1) >= 1

C37_Witness ==
    /\ Finished
    /\ Len(steps) >= 2
    /\ steps[1].on_failure
    /\ AgentSucceeded(1)
    /\ Invoked(1) = steps[1].retries + 1
    /\ Invoked(1) >= 2
    /\ Invoked(2) >= 1

(* the sum of retries + 1 over the first n steps *)
RECURSIVE Budget(_)
Budget(n) == IF n = 0 THEN 0 ELSE steps[n].retries + 1 + Budget(n - 1)

(* the run has come to step idx and is past its first agent call *)
Reached(idx) ==
    \/ idx < i
    \/ idx = i /\ pc \in {"returned", "sleep", "on_failure", "except"}
    \/ idx = i /\ Halted

C38_Bounded ==
    /\ Len(calls) <= Budget(Len(steps))
    /\ \A j \in 1..Len(steps) :
          /\ Invoked(j) <= steps[j].retries + 1
          /\ Cardinality({k \in 1..Len(handlerCalls) : handlerCalls[k].step = j}) <= 1
          /\ Reached(j) => Invoked(j) >= 1

(* C38: when every agent and handler call returns or raises, an execute() call
   that has begun returns or raises; by then the agents were invoked at most
   the sum of retries + 1 times over the steps, a handler at most once per
   step, and every step the run came to at least once. *)
C38_Terminates == []C38_Bounded /\ ((pc # "idle") ~> Finished)

C38_Witness ==
    /\ Halted
    /\ Len(steps) = 2
    /\ steps[1].retries > 0
    /\ steps[2].retries = 0
    /\ HandlerReturned(1)
    /\ Len(calls) = Budget(Len(steps))

(* the log of a run that returned: one record per step, the k-th with
   step_index k - 1 (position and index both counted from 0 in the source) and
   the name of step k, each in a terminal state *)
OneRecordPerStep ==
    /\ Len(execution_log) = Len(steps)
    /\ \A k \in 1..Len(execution_log) :
          /\ execution_log[k].step_index = k - 1
          /\ execution_log[k].step_name = steps[k].name
          /\ execution_log[k].state \in {SUCCESS, FAILED}

(* each record's output is the value under the step's name in the returned map *)
OutputsInResult ==
    \A k \in 1..Len(execution_log) :
        /\ execution_log[k].step_name \in DOMAIN result.value
        /\ execution_log[k].output = result.value[execution_log[k].step_name]

(* C39 as stated: after execute() returned, the log has one record per step,
   in step order and in a terminal state, and each record's output is the
   value under that step's name in the returned map. *)
C39_LogMatchesResult ==
    result.kind = "returned" => OneRecordPerStep /\ OutputsInResult

(* C39: after execute() returned, the log has one record per step, in step
   order and in a terminal state; with pairwise distinct step names each
   record's output is the value under that step's name in the returned map. *)
C39_LogMatchesResultDistinct ==
    result.kind = "returned" =>
        /\ OneRecordPerStep
        /\ DistinctNames => OutputsInResult

C39_Witness ==
    /\ result.kind = "returned"
    /\ DistinctNames
    /\ Len(steps) >= 2
    /\ Len(execution_log) = 2
    /\ execution_log[1].output # execution_log[2].output
    /\ execution_log[2].output = result.value[steps[2].name]

(* a step of execute() after it has begun *)
InsideExecute == pc # "idle"

C40_Step == InsideExecute => initial_input' = initial_input

(* C40: from its first statement to its return or raise, execute() leaves the
   caller's initial_input as it was, keys and values: the outputs of the steps
   go to the run's own copy. *)
C40_InputUntouched == [][C40_Step]_vars

C40_Witness ==
    /\ result.kind = "returned"
    /\ steps[1].name \in DOMAIN initial_input
    /\ result.value[steps[1].name] # initial_input[steps[1].name]
    /\ DOMAIN result.value # DOMAIN initial_input

----------------------------------------------------------------------------
(* Properties of the vector store *)

(* position in the store of the k-th record of the last accepted batch *)
Position(k) == Len(metadata) - Len(last_add.ids) + k

(* after an accepted batch: one identifier per record, the k-th record of the
   batch stored with its float32 row, its metadata and the k-th identifier *)
C10_Stored ==
    /\ Len(index) = Len(metadata)
    /\ \A p, q \in 1..Len(metadata) :
          metadata[p]["document_id"] = metadata[q]["document_id"] => p = q
    /\ last_add.kind = "ok" =>
          /\ Len(last_add.ids) = Len(last_add.embeddings)
          /\ Len(last_add.ids) = Len(last_add.metas)
          /\ Len(last_add.ids) >= 1
          /\ Len(last_add.ids) <= Len(metadata)
          /\ \A k \in 1..Len(last_add.ids) :
                /\ index[Position(k)] = Float32Row(last_add.embeddings[k])
                /\ DOMAIN metadata[Position(k)]
                     = DOMAIN last_add.metas[k] \cup {"document_id"}
                /\ \A f \in DOMAIN last_add.metas[k] \ {"document_id"} :
                      metadata[Position(k)][f] = last_add.metas[k][f]
                /\ metadata[Position(k)]["document_id"] = last_add.ids[k]

(* a call leaves every row and record already stored where it was, and an
   accepted batch of n records adds exactly n *)
C10_Kept ==
    /\ Len(index') >= Len(index)
    /\ Len(metadata') >= Len(metadata)
    /\ \A p \in 1..Len(index) : index'[p] = index[p]
    /\ \A p \in 1..Len(metadata) : metadata'[p] = metadata[p]
    /\ last_add'.kind = "ok" =>
          Len(metadata') = Len(metadata) + Len(last_add'.embeddings)

(* C10: after any sequence of add_documents() calls the store holds as many
   float32 rows as metadata records, the record at position p is the one
   supplied with the vector at position p (with the identifier stamped in
   under "document_id"), the identifiers in the store are pairwise distinct,
   and an accepted call returned one identifier per record of its batch, the
   k-th being the one stamped into the k-th record it appended. *)
C10_LockStep == []C10_Stored /\ [][C10_Kept]_vars

C10_Witness ==
    /\ last_add.kind = "ok"
    /\ Len(last_add.ids) = 2
    /\ Len(metadata) = 3
    /\ last_add.metas[1] # last_add.metas[2]
    /\ last_add.embeddings[1] # last_add.embeddings[2]
    /\ Float32Row(last_add.embeddings[1]) = Float32Row(last_add.embeddings[2])

(* the batch of the last add_documents() call is one the store must refuse *)
Malformed ==
    \/ Len(last_add.embeddings) # Len(last_add.metas)
    \/ Len(last_add.embeddings) = 0
    \/ \E k \in 1..Len(last_add.embeddings) : Len(last_add.embeddings[k]) # dimension

C11_Refused == last_add.kind # "none" /\ Malformed => last_add.kind = "ValueError"

C11_Untouched ==
    last_add'.kind = "ValueError" =>
        /\ index' = index
        /\ metadata' = metadata
        /\ dimension' = dimension

(* C11: add_documents() raises ValueError when the two lists differ in length,
   when the batch is empty and when any vector, the first or a later one, has
   a length other than the dimension; a call that raises leaves the rows and
   the metadata exactly as they were *)
C11_RejectedInsert == []C11_Refused /\ [][C11_Untouched]_vars

C11_Witness ==
    /\ last_add.kind = "ValueError"
    /\ Len(index) >= 1
    /\ Len(last_add.embeddings) = 2
    /\ Len(last_add.metas) = 2
    /\ Len(last_add.embeddings[1]) = dimension
    /\ Len(last_add.embeddings[2]) # dimension

C12_Step ==
    /\ get_document_count' >= get_document_count
    /\ \A p \in 1..get_document_count :
          /\ index'[p] = index[p]
          /\ metadata'[p] = metadata[p]
    /\ last_add'.kind # "ok" => get_document_count' = get_document_count
    /\ last_add'.kind = "ok" =>
          /\ get_document_count' = get_document_count + Len(last_add'.embeddings)
          /\ Len(metadata') = get_document_count'
          /\ \A k \in 1..Len(last_add'.embeddings) :
                /\ index'[get_document_count + k] = Float32Row(last_add'.embeddings[k])
                /\ metadata'[get_document_count + k]["document_id"] = last_add'.ids[k]
                /\ \A f \in DOMAIN last_add'.metas[k] \ {"document_id"} :
                      metadata'[get_document_count + k][f] = last_add'.metas[k][f]

(* C12: over any sequence of inserts and searches the count never decreases,
   an accepted insert of n records raises it by exactly n and puts them at
   positions count..count+n-1 in input order, and the vector, identifier and
   metadata at an existing position never change *)
C12_AppendOnly == [][C12_Step]_vars

C12_Witness ==
    /\ last_add.kind = "ok"
    /\ get_document_count > Len(last_add.ids)
    /\ index[get_document_count] # index[1]

(* C13: similarity_search() raises ValueError when k <= 0, when the index is
   empty and when the query's length is not the dimension, and returns no
   results then *)
C13_SearchRefused ==
    (/\ last_search.kind # "none"
     /\ \/ last_search.k <= 0
        \/ is_empty
        \/ Len(last_search.query) # dimension)
    => /\ last_search.kind = "ValueError"
       /\ last_search.results = << >>

C13_Witness ==
    /\ last_search.kind = "ValueError"
    /\ last_search.k <= 0
    /\ ~is_empty
    /\ Len(last_search.query) = dimension

(* C14: a search that succeeds, with k > 0 on n >= 1 records, returns exactly
   min(k, n) results, each at a stored position and no position twice *)
C14_ResultCount ==
    last_search.kind = "ok" =>
        LET results == last_search.results
        IN  /\ last_search.k > 0
            /\ get_document_count >= 1
            /\ Len(results) = Min(last_search.k, get_document_count)
            /\ \A a \in 1..Len(results) : results[a].position \in 1..get_document_count
            /\ \A a, b \in 1..Len(results) :
                  a # b => results[a].position # results[b].position

C14_Witness ==
    /\ last_search.kind = "ok"
    /\ last_search.k > get_document_count
    /\ Len(last_search.results) = get_document_count

(* C15: a search returns the records nearest to the query in squared
   Euclidean distance: the distances never decrease along the results, no
   record left out is strictly nearer than one returned, and each result
   carries the identifier and the metadata stored at its position *)
C15_NearestFirst ==
    last_search.kind = "ok" =>
        LET results == last_search.results
            q == Float32Row(last_search.query)
            returned == {results[a].position : a \in 1..Len(results)}
        IN  /\ \A a \in 1..Len(results) :
                  /\ results[a].distance = L2Sqr(q, index[results[a].position])
                  /\ results[a].metadata = metadata[results[a].position]
                  /\ results[a].document_id = metadata[results[a].position]["document_id"]
                  /\ results[a].score = [num |-> 1, den |-> 1 + results[a].distance]
            /\ \A a, b \in 1..Len(results) :
                  a < b => results[a].distance <= results[b].distance
            /\ \A p \in 1..get_document_count :
                  p \notin returned =>
                      \A a \in 1..Len(results) :
                          results[a].distance <= L2Sqr(q, index[p])

(* two unit vectors (one is 2 in these units) and a query equal to the first *)
C15_Witness ==
    /\ last_search.kind = "ok"
    /\ index = << <<2, 0>>, <<0, 2>> >>
    /\ last_search.query = <<2, 0>>
    /\ last_search.k = 2
    /\ Len(last_search.results) = 2
    /\ last_search.results[1].distance = 0
    /\ last_search.results[2].distance = 2 * L2Sqr(<<2>>, <<0>>)

(* the stored positions whose vector, as supplied, is v *)
GivenAt(v) == {p \in 1..Len(given) : given[p] = v}

(* the last search found exactly the record at position p, at distance 0 *)
FoundAt(p) ==
    /\ Len(last_search.results) = 1
    /\ last_search.results[1].position = p
    /\ last_search.results[1].distance = 0
    /\ last_search.results[1].document_id = metadata[p]["document_id"]
    /\ last_search.results[1].metadata = metadata[p]

(* C16 as stated: after pairwise distinct vectors were inserted, a search for
   one of them with k = 1 returns exactly its record, at distance 0 *)
C16_RoundTrip ==
    (/\ last_search.kind = "ok"
     /\ last_search.k = 1
     /\ \A p, r \in 1..Len(given) : p # r => given[p] # given[r])
    => \A p \in GivenAt(last_search.query) : FoundAt(p)

(* C16: after vectors whose float32 values are pairwise distinct were
   inserted, a search for one of them with k = 1 returns exactly its record,
   at distance 0 *)
C16_RoundTripFloat32 ==
    (/\ last_search.kind = "ok"
     /\ last_search.k = 1
     /\ \A p, r \in 1..Len(given) : p # r => Float32Row(given[p]) # Float32Row(given[r]))
    => \A p \in GivenAt(last_search.query) : FoundAt(p)

C16_Witness ==
    /\ last_search.kind = "ok"
    /\ last_search.k = 1
    /\ Len(given) >= 2
    /\ \A p, r \in 1..Len(given) : p # r => Float32Row(given[p]) # Float32Row(given[r])
    /\ Float32Row(last_search.query) # last_search.query
    /\ \E p \in GivenAt(last_search.query) : FoundAt(p)

(* a step of similarity_search(), returning or raising *)
SearchStep == last_search'.kind # "none"

C28_Unchanged ==
    SearchStep =>
      /\ index' = index
      /\ metadata' = metadata
      /\ uuids' = uuids
      /\ dimension' = dimension
      /\ get_document_count' = get_document_count
      /\ is_empty' = is_empty

C28_EmptyIsZero == is_empty <=> get_document_count = 0

(* C28: a search, whether it returns or raises, leaves the vectors, the
   metadata, the identifiers, the dimension and the count as they were, and so
   do get_document_count() and is_empty(), which only read; is_empty() is true
   exactly when get_document_count() is 0. *)
C28_ReadOnly == []C28_EmptyIsZero /\ [][C28_Unchanged]_vars

C28_Witness ==
    /\ last_search.kind = "ValueError"
    /\ ~is_empty
    /\ get_document_count = Len(metadata)
    /\ get_document_count >= 2

----------------------------------------------------------------------------
(* Properties of the ingestion pipeline *)

(* ingest_document() has returned or raised, and no call is under way *)
Ended == ingest_pc = "idle" /\ last_ingest.kind # "none"

Returned == Ended /\ last_ingest.kind = "ok"
Failed == Ended /\ last_ingest.kind = "error"

(* the store holds exactly what it held when the call began *)
StoreAsBefore == index = before.index /\ metadata = before.metadata

(* C17: when ingest_document() returns with at least one chunk, chunks_created,
   embeddings_generated and chunks_stored are equal and the store has grown by
   that number; when the provider returned another number of vectors than
   there were chunks, ingest_document() has raised *)
C17_EqualCounts ==
    /\ Returned /\ last_ingest.stats.chunks_created >= 1 =>
          /\ last_ingest.stats.chunks_created = Len(ing.text_chunks)
          /\ last_ingest.stats.embeddings_generated = last_ingest.stats.chunks_created
          /\ last_ingest.stats.chunks_stored = last_ingest.stats.chunks_created
          /\ get_document_count = Len(before.index) + last_ingest.stats.chunks_created
    /\ (/\ Ended
        /\ "generate_embeddings" \in called
        /\ Len(ing.embeddings) # Len(ing.text_chunks)) => Failed

C17_Witness ==
    /\ Returned
    /\ last_ingest.stats.chunks_stored = 2
    /\ Len(before.index) >= 1

(* C18: when chunk_text() yields no chunk, ingest_document() returns statistics
   whose three counts are 0 and raises nothing, the embedding service and
   add_documents() are not called, and the store is as it was *)
C18_ZeroChunks ==
    /\ ingest_pc \in {"chunked", "embedded"} => ing.text_chunks # << >>
    /\ (/\ Ended
        /\ "chunk_text" \in called
        /\ ~ChunkSettingsInvalid(chunk_size, chunk_overlap)
        /\ ing.text_chunks = << >>)
       => /\ Returned
          /\ last_ingest.stats.chunks_created = 0
          /\ last_ingest.stats.embeddings_generated = 0
          /\ last_ingest.stats.chunks_stored = 0
          /\ called = {"extract_text", "chunk_text"}
          /\ StoreAsBefore

C18_Witness ==
    /\ Returned
    /\ last_ingest.stats.chunks_created = 0
    /\ ing.extracted_text = Blanks(2)
    /\ get_document_count >= 1

(* C19 as stated: after ingest_document() returned for document d with chunks
   c_0 .. c_(n-1), the n records it added carry, in position order,
   document_id = d, chunk_index = i and text = c_i *)
C19_ChunkMetadata ==
    Returned =>
        \A k \in 1..Len(ing.text_chunks) :
            /\ metadata[Len(before.metadata) + k]["document_id"] = ing.document_id
            /\ metadata[Len(before.metadata) + k]["chunk_index"] = k - 1
            /\ metadata[Len(before.metadata) + k]["text"] = ing.text_chunks[k]

(* C20: when ingest_document() raises, at whatever stage, the store holds
   exactly the records it held before the call; a content type outside the
   allow-list makes it raise before chunk_text(), the embedding service or the
   store is called *)
C20_AllOrNothing ==
    /\ Failed => StoreAsBefore
    /\ ing.content_type \in ContentTypes \ SUPPORTED_FORMATS =>
          /\ Failed
          /\ last_ingest.error = "UnsupportedFileFormatError"
          /\ called = {"extract_text"}

C20_Witness ==
    /\ Failed
    /\ "add_documents" \in called
    /\ get_document_count >= 1

----------------------------------------------------------------------------
(* Properties of the retrieval agent *)

(* the request's retrieval reached the store *)
Searched == last_retrieve.kind # "none" /\ last_search.kind # "none"

(* C21 as stated: a retrieval that finds the store empty, or gets no result
   from it, returns the no-context output, raises nothing and does not call
   the LLM *)
C21_NoContextSentinel ==
    (/\ Searched
     /\ is_empty \/ (last_search.kind = "ok" /\ last_search.results = << >>))
    => /\ last_retrieve.kind = "ok"
       /\ last_retrieve.content = NoContext
       /\ ~last_retrieve.llm_called

(* C22 as stated: in the run for document d, every passage retrieved for the
   first step was ingested from d, whatever else the store holds *)
C22_OwnPassages ==
    last_retrieve.kind # "none" =>
        \A j \in 1..Len(last_retrieve.passages) :
            origin[last_retrieve.passages[j]] = ing.document_id

(* a step of Store that adds records to the index *)
Inserted == Len(origin') > Len(origin)

C32_Step ==
    Inserted => \A p \in 1..Len(origin) : origin[p] # ing.document_id

(* C32 as stated: over any sequence of requests the chunks of a document are
   inserted at most once: no insert adds records for a document that has
   records in the index already. *)
C32_IngestedOnce == [][C32_Step]_vars

----------------------------------------------------------------------------
(* Properties of the chunker *)

(* the settings of the last chunk_text() call are ones it must accept *)
ValidSettings ==
    /\ chunk_call.chunk_size > 0
    /\ chunk_call.chunk_overlap >= 0
    /\ chunk_call.chunk_overlap < chunk_call.chunk_size

(* the tokens of the text of the last call, and the span of its chunk j,
   counted from 0: tokens From(j) .. Until(j) - 1 *)
Tokens == Encode(chunk_call.text)
From(j) == j * (chunk_call.chunk_size - chunk_call.chunk_overlap)
Until(j) == Min(From(j) + chunk_call.chunk_size, Len(Tokens))

(* the chunks of the last call are the decoded spans tokens[j*step :
   min(j*step + chunk_size, N)] with step = chunk_size - overlap; every span
   is non-empty and at most chunk_size tokens long, only the last one ends at
   N, consecutive spans share exactly overlap tokens and the spans cover every
   token *)
Windows ==
    LET n == Len(chunk_call.chunks)
    IN  /\ n >= 1
        /\ \A j \in 0..n-1 :
              /\ From(j) < Until(j)
              /\ Until(j) - From(j) <= chunk_call.chunk_size
              /\ chunk_call.chunks[j + 1] = Decode(SubSeq(Tokens, From(j) + 1, Until(j)))
        /\ \A j \in 0..n-2 :
              /\ Until(j) < Len(Tokens)
              /\ Until(j) - From(j + 1) = chunk_call.chunk_overlap
              /\ Until(j) <= Until(j + 1)
        /\ Until(n - 1) = Len(Tokens)
        /\ \A t \in 0..Len(Tokens)-1 : \E j \in 0..n-1 : From(j) <= t /\ t < Until(j)

(* C23 as stated: for a text of N > chunk_size tokens the chunks are the
   sliding windows over its tokens *)
C23_SlidingWindow ==
    (chunk_call.kind = "ok" /\ Len(Tokens) > chunk_call.chunk_size) => Windows

(* C23: for a text of N > chunk_size tokens that is not all blanks the chunks
   are the sliding windows over its tokens *)
C23_SlidingWindowNonBlank ==
    (/\ chunk_call.kind = "ok"
     /\ Len(Tokens) > chunk_call.chunk_size
     /\ \E k \in 1..Len(chunk_call.text) : chunk_call.text[k] # Blank)
    => Windows

(* four tokens, chunk_size 3, overlap 1: two chunks, tokens 0..2 and 2..3 *)
C23_Witness ==
    /\ chunk_call.kind = "ok"
    /\ chunk_call.text = <<"a", "b", Wide>>
    /\ chunk_call.chunk_size = 3
    /\ chunk_call.chunk_overlap = 1
    /\ chunk_call.chunks = << <<"a", "b", Replacement>>, <<Wide>> >>

(* C24: for settings it accepts and a text that is not blank and has at most
   chunk_size tokens, chunk_text() returns one chunk, the text as it was
   given and not its tokens decoded *)
C24_SingleChunk ==
    (/\ chunk_call.kind # "none"
     /\ ValidSettings
     /\ \E k \in 1..Len(chunk_call.text) : chunk_call.text[k] # Blank
     /\ Len(Tokens) <= chunk_call.chunk_size)
    => /\ chunk_call.kind = "ok"
       /\ chunk_call.chunks = <<chunk_call.text>>

C24_Witness ==
    /\ chunk_call.kind = "ok"
    /\ Len(Tokens) = chunk_call.chunk_size
    /\ Decode(Tokens) # chunk_call.text
    /\ chunk_call.chunks = <<chunk_call.text>>

(* C25: chunk_text() raises ValueError whenever chunk_size <= 0, overlap < 0 or
   overlap >= chunk_size, for every text, a blank one too *)
C25_InvalidSettings ==
    (chunk_call.kind # "none" /\ ~ValidSettings) =>
        /\ chunk_call.kind = "ValueError"
        /\ chunk_call.chunks = << >>

C25_Witness ==
    /\ chunk_call.kind = "ValueError"
    /\ chunk_call.text = <<Blank, Blank>>
    /\ chunk_call.chunk_size = 1
    /\ chunk_call.chunk_overlap = 1

(* C26: for settings it accepts, chunk_text() on a text that is empty or all
   blanks returns no chunk and raises nothing *)
C26_BlankText ==
    (/\ chunk_call.kind # "none"
     /\ ValidSettings
     /\ \A k \in 1..Len(chunk_call.text) : chunk_call.text[k] = Blank)
    => /\ chunk_call.kind = "ok"
       /\ chunk_call.chunks = << >>

C26_Witness ==
    /\ chunk_call.kind = "ok"
    /\ chunk_call.text = <<Blank, Blank>>
    /\ chunk_call.chunks = << >>

----------------------------------------------------------------------------
(* Properties of the host's concurrent calls *)

(* a worker is about to call the store: what it finds there is observable *)
Observable == \E w \in Workers : host[w].pc = "idle"

(* the metadata at position p is the one inserted with the vector at p *)
Paired(p) ==
    /\ p <= Len(index)
    /\ \A w \in Workers : metadata[p]["text"] = w => index[p] = WorkerRow(w)

(* C33 as stated: under every interleaving of the calls of concurrent requests,
   whenever a worker can observe the store it holds as many vectors as
   metadata records and the metadata at each position belongs to the vector
   at that position: no call runs between the vector append and the metadata
   append of an insert. *)
C33_SerializedInserts ==
    Observable =>
      /\ Len(index) = Len(metadata)
      /\ \A p \in 1..Len(metadata) : Paired(p)

(* both workers' execute() calls have returned or raised *)
BothFinished == \A w \in Workers : runs[w].pc = "done"

(* what a worker's cumulative map holds under the names of the steps is what
   its own steps returned *)
OwnOutputs(w, data) ==
    /\ DOMAIN data \subseteq DOMAIN BlueprintInput \cup {steps[j].name : j \in 1..Len(steps)}
    /\ \A j \in 1..Len(runs[w].outs) : data[steps[j].name] = runs[w].outs[j]

(* the log holds the records of the run of worker w and no other, one per step
   that run reached, in step order *)
LogOfRun(w) ==
    /\ execution_log = runs[w].own
    /\ \A k \in 1..Len(execution_log) : execution_log[k].step_index = k - 1

(* C34 as stated: when two execute() calls on the one orchestrator overlap, the
   cumulative map and the returned result of each hold only outputs of its own
   steps, and once both have finished the log holds the records of exactly one
   of the two runs, one record per step of that run in step order. *)
C34_OverlappingRuns ==
    /\ \A w \in Workers :
          /\ runs[w].pc = "for" => OwnOutputs(w, runs[w].cumulative_data)
          /\ runs[w].result.kind = "returned" => OwnOutputs(w, runs[w].result.value)
    /\ BothFinished => \E w \in Workers : LogOfRun(w)

====
